---- MODULE Spec2Model ----
(***************************************************************************)
(* Model of pyethapp/app.py: the `import` and `export` commands and the    *)
(* unlock_accounts procedure.                                              *)
(*                                                                         *)
(* Files are byte sequences in RLP.  Block headers are abstracted to one   *)
(* byte that names a block of a fixed block tree (BlockIds); the hash,     *)
(* parent hash and number of a header are functions of that byte.          *)
(***************************************************************************)
EXTENDS Integers, Sequences, FiniteSets, TLC

VARIABLES
    pc,            \* position of the command being run
    exit_status,   \* Running while the process lives, then its exit status
    log,           \* the log records emitted so far, in order
    chain,         \* hashes of the blocks the chain holds
    data,          \* import: the bytes read from the file
    i,             \* import: byte offset of the generator blocks()
    n,             \* import: enumerate() counter; export: loop variable
    first_block,   \* import: result of next(blocks())
    pending,       \* import: block add_block is waiting to put into a full queue
    block_queue,   \* chain service: blocks waiting for processing
    added,         \* chain service: the add_block calls made so far
    from_,         \* export: --from
    to,            \* export: --to
    head_number,   \* export: chain head number read before validation
    missing,       \* export: block numbers the index or db cannot resolve
    sink,          \* export: bytes of the output file
    sink0,         \* export: bytes the output file held when it was opened
    written,       \* export: block numbers of the file.write calls
    nwritten,      \* export: number of file.write calls
    account_ids,   \* unlock: requested identifiers
    accounts,      \* unlock: accounts resolved so far
    password,      \* unlock: password given up front, or NoPassword
    max_attempts,  \* unlock: attempt budget, or None
    locked,        \* account service: locked flag of every account
    k,             \* unlock: position in the list being processed
    attempt,       \* unlock: attempt counter
    pw,            \* unlock: password typed at the last prompt
    prompts,       \* unlock: positions prompted for, in order
    unlock_calls   \* unlock: account.unlock calls made, in order

vars == <<pc, exit_status, log, chain, data, i, n, first_block, pending,
          block_queue, added, from_, to, head_number, missing, sink, sink0,
          written, nwritten, account_ids, accounts, password, max_attempts, locked, k,
          attempt, pw, prompts, unlock_calls>>

importVars == <<data, i, n, first_block, pending, block_queue, added>>
exportVars == <<from_, to, head_number, missing, sink, sink0, written, nwritten>>
unlockVars == <<account_ids, accounts, password, max_attempts, locked, k,
                attempt, pw, prompts, unlock_calls>>

(***************************************************************************)
(* Bounds                                                                  *)
(***************************************************************************)
MaxRecords == 3      \* records concatenated into an import file
MaxQueue == 1        \* capacity of the chain service's block_queue
MaxHead == 3         \* largest chain head number

(* Python's None for an integer option or a missing exit status. *)
None == -1000
Running == -1001

Max(S) == CHOOSE x \in S : \A y \in S : y <= x

RECURSIVE Flatten(_)
Flatten(ss) == IF ss = <<>> THEN <<>> ELSE Head(ss) \o Flatten(Tail(ss))

(***************************************************************************)
(* The block tree.  Block h+1 has number h; blocks 1..MaxHead+1 form the   *)
(* main line from the genesis block 1.  OrphanId names a block whose       *)
(* parent is no block of the tree.                                         *)
(***************************************************************************)
Genesis == 1
OrphanId == 100
OrphanParent == 101
GarbageHash == 102
MainIds == 1 .. (MaxHead + 1)
BlockIds == MainIds \cup {OrphanId}

Number(h) == IF h \in MainIds THEN h - 1 ELSE IF h = OrphanId THEN 2 ELSE 0
PrevHash(h) ==
    IF h \in MainIds THEN h - 1 ELSE IF h = OrphanId THEN OrphanParent ELSE GarbageHash

NoBlock == [hash |-> None, prevhash |-> None, number |-> None]

(* chain.chain.head.number *)
HeadNumber(c) == Max({Number(h) : h \in c})

(***************************************************************************)
(* RLP: rlp.codec.consume_item(data, i) -> (item, next_i) or DecodingError *)
(* Offsets are 0-based as in the code; TLA+ sequences are 1-based.         *)
(***************************************************************************)
DecodeFail == [ok |-> FALSE]

consume_length_prefix(rlp, start) ==
    IF start >= Len(rlp) THEN DecodeFail
    ELSE LET b0 == rlp[start + 1] IN
         IF b0 < 128 THEN [ok |-> TRUE, type |-> "str", len |-> 1, s |-> start]
         ELSE IF b0 < 184
              THEN [ok |-> TRUE, type |-> "str", len |-> b0 - 128, s |-> start + 1]
         ELSE IF b0 < 192
              THEN DecodeFail  \* long string: at least 56 bytes, more than any file here
         ELSE IF b0 < 248
              THEN [ok |-> TRUE, type |-> "list", len |-> b0 - 192, s |-> start + 1]
         ELSE DecodeFail       \* long list: at least 56 bytes

RECURSIVE consume_item(_, _), consume_payload_list(_, _, _)
consume_item(rlp, start) ==
    LET p == consume_length_prefix(rlp, start) IN
    IF ~p.ok THEN DecodeFail
    ELSE IF p.s + p.len > Len(rlp) THEN DecodeFail
    ELSE IF p.type = "str"
         THEN [ok |-> TRUE,
               item |-> [t |-> "str", v |-> SubSeq(rlp, p.s + 1, p.s + p.len)],
               next |-> p.s + p.len]
    ELSE LET r == consume_payload_list(rlp, p.s, p.s + p.len) IN
         IF ~r.ok THEN DecodeFail
         ELSE [ok |-> TRUE, item |-> [t |-> "list", v |-> r.items], next |-> r.next]

consume_payload_list(rlp, pos, end) ==
    IF pos > end THEN DecodeFail
    ELSE IF pos = end THEN [ok |-> TRUE, items |-> <<>>, next |-> pos]
    ELSE LET r == consume_item(rlp, pos) IN
         IF ~r.ok THEN DecodeFail
         ELSE LET rest == consume_payload_list(rlp, r.next, end) IN
              IF ~rest.ok THEN DecodeFail
              ELSE [ok |-> TRUE, items |-> <<r.item>> \o rest.items, next |-> rest.next]

(***************************************************************************)
(* eth_protocol.TransientBlock(block_data): header, transactions, uncles.  *)
(***************************************************************************)
HeaderHash(item) ==
    IF item.t = "str" /\ Len(item.v) = 1 /\ item.v[1] \in BlockIds
    THEN item.v[1] ELSE GarbageHash

TransientBlock(block_data) ==
    LET h == HeaderHash(block_data.v[1]) IN
    [hash |-> h, prevhash |-> PrevHash(h), number |-> Number(h)]

(* line 327: isinstance(block_data, list) and len(block_data) == 3 *)
\* variant: the length test is dropped
IsBlockShapeMut(block_data) == block_data.t = "list"
IsBlockShape(block_data) == block_data.t = "list" /\ Len(block_data.v) = 3

(***************************************************************************)
(* Log records                                                             *)
(***************************************************************************)
Rec(level, msg, arg) == [level |-> level, msg |-> msg, arg |-> arg]
LogCount(level) == Cardinality({j \in 1 .. Len(log) : log[j].level = level})
Logged(msg) == \E j \in 1 .. Len(log) : log[j].msg = msg

(***************************************************************************)
(* import_blocks.blocks(): one step of the generator from byte offset at.  *)
(*   kind "stop"  : the generator is exhausted (StopIteration)             *)
(*   kind "fatal" : DecodingError, fatal log and sys.exit(1)               *)
(*   kind "none"  : warning log, None is yielded                           *)
(*   kind "block" : a TransientBlock is yielded                            *)
(***************************************************************************)
(* variant: the generator ends at the first record that is not a block *)
blocks_nextMut(at) ==
    IF ~(at < Len(data)) THEN [kind |-> "stop", logs |-> <<>>]
    ELSE LET r == consume_item(data, at) IN
         IF ~r.ok
         THEN [kind |-> "fatal", logs |-> <<Rec("fatal", "invalid RLP encoding", at)>>]
         ELSE IF ~IsBlockShape(r.item)
              THEN [kind |-> "stop", logs |-> <<Rec("warning", "not a valid block", at)>>]
              ELSE [kind |-> "block", next_i |-> r.next, logs |-> <<>>,
                    block |-> TransientBlock(r.item)]

(* variant: the generator yields None without logging *)
blocks_nextQuiet(at) ==
    IF ~(at < Len(data)) THEN [kind |-> "stop", logs |-> <<>>]
    ELSE LET r == consume_item(data, at) IN
         IF ~r.ok
         THEN [kind |-> "fatal", logs |-> <<Rec("fatal", "invalid RLP encoding", at)>>]
         ELSE IF ~IsBlockShape(r.item)
              THEN [kind |-> "none", next_i |-> r.next, logs |-> <<>>]
              ELSE [kind |-> "block", next_i |-> r.next, logs |-> <<>>,
                    block |-> TransientBlock(r.item)]

(* variant: a DecodingError ends the generator instead of the process *)
blocks_nextBreak(at) ==
    IF ~(at < Len(data)) THEN [kind |-> "stop", logs |-> <<>>]
    ELSE LET r == consume_item(data, at) IN
         IF ~r.ok
         THEN [kind |-> "stop", logs |-> <<>>]
         ELSE IF ~IsBlockShape(r.item)
              THEN [kind |-> "none", next_i |-> r.next,
                    logs |-> <<Rec("warning", "not a valid block", at)>>]
              ELSE [kind |-> "block", next_i |-> r.next, logs |-> <<>>,
                    block |-> TransientBlock(r.item)]

blocks_next(at) ==
    IF ~(at < Len(data)) THEN [kind |-> "stop", logs |-> <<>>]
    ELSE LET r == consume_item(data, at) IN
         IF ~r.ok
         THEN [kind |-> "fatal", logs |-> <<Rec("fatal", "invalid RLP encoding", at)>>]
         ELSE IF ~IsBlockShape(r.item)
              THEN [kind |-> "none", next_i |-> r.next,
                    logs |-> <<Rec("warning", "not a valid block", at)>>]
              ELSE [kind |-> "block", next_i |-> r.next, logs |-> <<>>,
                    block |-> TransientBlock(r.item)]

(* ChainService.knows_block(hash) *)
knows_block(h) == h \in chain

(* lines 341-342: the first block or its parent is known *)
\* variant: both hashes must be known
LinkedMut(b) == knows_block(b.hash) /\ knows_block(b.prevhash)
Linked(b) == knows_block(b.hash) \/ knows_block(b.prevhash)

(***************************************************************************)
(* import_blocks                                                           *)
(***************************************************************************)
Exit1(logs) ==
    /\ log' = log \o logs
    /\ pc' = "exited"
    /\ exit_status' = 1

(* lines 312-315: the queue is empty, the file is read, the app is started *)
ImportStart ==
    /\ pc = "import"
    /\ block_queue = <<>>
    /\ pc' = "peek"
    /\ UNCHANGED <<exit_status, log, chain, importVars, exportVars, unlockVars>>

(* line 337: first_block = next(blocks()) *)
NextFirstBlock ==
    /\ pc = "peek"
    /\ LET g == blocks_next(0) IN
       CASE g.kind = "stop" ->
              \* StopIteration is raised and nothing catches it
              /\ pc' = "crashed"
              /\ exit_status' = 1
              /\ UNCHANGED <<log, first_block>>
         [] g.kind = "fatal" ->
              /\ Exit1(g.logs)
              /\ UNCHANGED first_block
         [] g.kind = "none" ->
              /\ log' = log \o g.logs
              /\ first_block' = NoBlock
              /\ pc' = "check"
              /\ UNCHANGED exit_status
         [] g.kind = "block" ->
              /\ first_block' = g.block
              /\ pc' = "check"
              /\ UNCHANGED <<log, exit_status>>
    /\ UNCHANGED <<chain, data, i, n, pending, block_queue, added, exportVars,
                   unlockVars>>

(* lines 338-345 *)
\* variant: the peeked block is passed to add_block once the checks have passed
CheckFirstBlockAdds ==
    /\ pc = "check"
    /\ IF first_block = NoBlock
       THEN /\ Exit1(<<Rec("fatal", "first block invalid", 0)>>)
            /\ UNCHANGED <<block_queue, added>>
       ELSE IF ~Linked(first_block)
            THEN /\ Exit1(<<Rec("fatal", "unlinked chains", first_block.number)>>)
                 /\ UNCHANGED <<block_queue, added>>
            ELSE /\ pc' = "scan"
                 /\ added' = Append(added, [pos |-> 0, at |-> 0, block |-> first_block])
                 /\ block_queue' = Append(block_queue, first_block)
                 /\ UNCHANGED <<log, exit_status>>
    /\ UNCHANGED <<chain, data, i, n, first_block, pending, exportVars, unlockVars>>
CheckFirstBlock ==
    /\ pc = "check"
    /\ IF first_block = NoBlock
       THEN Exit1(<<Rec("fatal", "first block invalid", 0)>>)
       ELSE IF ~Linked(first_block)
            THEN Exit1(<<Rec("fatal", "unlinked chains", first_block.number)>>)
            ELSE /\ pc' = "scan"
                 /\ UNCHANGED <<log, exit_status>>
    /\ UNCHANGED <<chain, importVars, exportVars, unlockVars>>

(* ChainService.add_block: the put succeeds at once when the queue has room *)
QueueFull == Len(block_queue) >= MaxQueue

(* lines 348-353: one iteration of the scan *)
ScanStep ==
    /\ pc = "scan"
    /\ LET g == blocks_next(i) IN
       CASE g.kind = "stop" ->
              /\ pc' = "drain"
              /\ UNCHANGED <<log, exit_status, i, n, pending, block_queue, added>>
         [] g.kind = "fatal" ->
              /\ Exit1(g.logs)
              /\ UNCHANGED <<i, n, pending, block_queue, added>>
         [] g.kind = "none" ->
              /\ log' = log \o g.logs \o <<Rec("warning", "skipping block", n)>>
              /\ i' = g.next_i
              /\ n' = n + 1
              /\ UNCHANGED <<pc, exit_status, pending, block_queue, added>>
         [] g.kind = "block" ->
              /\ log' = log \o <<Rec("debug", "adding block to queue", n)>>
              /\ added' = Append(added, [pos |-> n, at |-> i, block |-> g.block])
              /\ i' = g.next_i
              /\ n' = n + 1
              /\ IF QueueFull
                 THEN /\ pending' = g.block
                      /\ pc' = "put"
                      /\ UNCHANGED block_queue
                 ELSE /\ block_queue' = Append(block_queue, g.block)
                      /\ UNCHANGED <<pc, pending>>
              /\ UNCHANGED exit_status
    /\ UNCHANGED <<chain, data, first_block, exportVars, unlockVars>>

(* ChainService.add_block: a put that waited for room completes *)
PutResume ==
    /\ pc = "put"
    /\ ~QueueFull
    /\ block_queue' = Append(block_queue, pending)
    /\ pending' = NoBlock
    /\ pc' = "scan"
    /\ UNCHANGED <<exit_status, log, chain, data, i, n, first_block, added,
                   exportVars, unlockVars>>

(* line 356: the test of the drain loop *)
\* variant: the drain loop does not wait
QueueObservedEmptyMut == TRUE
\* variant: the test looks at the blocks ever passed on, not at those waiting
QueueObservedEmptyAdded == added = <<>>
QueueObservedEmpty == block_queue = <<>>

DrainCheck ==
    /\ pc = "drain"
    /\ pc' = IF QueueObservedEmpty THEN "stopping" ELSE "sleeping"
    /\ UNCHANGED <<exit_status, log, chain, importVars, exportVars, unlockVars>>

(* line 357: gevent.sleep() returns *)
DrainWake ==
    /\ pc = "sleeping"
    /\ pc' = "drain"
    /\ UNCHANGED <<exit_status, log, chain, importVars, exportVars, unlockVars>>

(* lines 358-359 *)
ImportFinish ==
    /\ pc = "stopping"
    /\ log' = Append(log, Rec("info", "import finished", HeadNumber(chain)))
    /\ pc' = "done"
    /\ exit_status' = 0
    /\ UNCHANGED <<chain, importVars, exportVars, unlockVars>>

(* ChainService._add_blocks: the consumer runs while the driver has yielded *)
ConsumeBlock ==
    /\ pc \in {"put", "sleeping"}
    /\ block_queue # <<>>
    /\ LET b == Head(block_queue) IN
       chain' = IF b.hash \notin chain /\ b.prevhash \in chain
                THEN chain \cup {b.hash} ELSE chain
    /\ block_queue' = Tail(block_queue)
    /\ UNCHANGED <<pc, exit_status, log, data, i, n, first_block, pending, added,
                   exportVars, unlockVars>>

(***************************************************************************)
(* Import files: concatenations of at most MaxRecords records.             *)
(***************************************************************************)
BlockRlp(h) == <<195, h, 192, 192>>          \* [header, [], []]
NestedBlockRlp(h) == <<196, h, 193, 192, 192>>  \* [header, [[]], []]
RecordPool ==
    { BlockRlp(2), NestedBlockRlp(3), BlockRlp(OrphanId),
      <<194, 2, 192>>,      \* a list of 2 elements
      <<3>>,                \* a byte string
      <<195, 2>>,           \* a list cut short
      <<184>> }             \* a long string prefix

RECURSIVE RecordSeqs(_)
RecordSeqs(m) ==
    IF m = 0 THEN {<<>>}
    ELSE LET S == RecordSeqs(m - 1) IN
         S \cup {Append(s, r) : s \in S, r \in RecordPool}

Buffers == {Flatten(s) : s \in RecordSeqs(MaxRecords)}

(* chains: the main line up to some head *)
Chains == {1 .. h : h \in 1 .. (MaxHead + 1)}

(***************************************************************************)
(* export_blocks                                                           *)
(***************************************************************************)
BatchSize == 50000

(* line 247: click.File('ab') opens the file for appending *)
\* variant: the file is opened with 'wb' and truncated
OpenSinkMut(existing) == <<>>
OpenSink(existing) == existing

(* lines 270-278: the first violated bound, or "ok" *)
\* variant: "to" is not compared with the head
ExportBoundsErrorMut(f, t, h) ==
    IF f < 0 THEN "block numbers must not be negative"
    ELSE IF t < f THEN "to block must be newer than from block"
    ELSE "ok"
ExportBoundsError(f, t, h) ==
    IF f < 0 THEN "block numbers must not be negative"
    ELSE IF t < f THEN "to block must be newer than from block"
    ELSE IF t > h THEN "to block not known"
    ELSE "ok"

(* line 283: (n - from_) % 50000 == 0 *)
\* variant: the offset from_ is forgotten
ProgressDueMut(num, f) == num % BatchSize = 0
ProgressDue(num, f) == (num - f) % BatchSize = 0

(* line 281: xrange(from_, to + 1) stops before this number *)
\* variant: xrange(from_, to)
ExportRangeEndMut(t) == t
ExportRangeEnd(t) == t + 1

(* chain.index.get_block_by_number(n) followed by db.get(block_hash) *)
Resolves(num) == num \notin missing /\ (num + 1) \in chain
StoredRlp(num) == <<195, num + 1, 192, 192>>

ExportOpen ==
    /\ pc = "export_open"
    /\ sink' = OpenSink(sink0)
    /\ pc' = "export"
    /\ UNCHANGED <<exit_status, log, chain, importVars, from_, to, head_number,
                   missing, sink0, written, nwritten, unlockVars>>

(* lines 265-280 *)
ExportValidate ==
    /\ pc = "export"
    /\ LET f == IF from_ = None THEN 0 ELSE from_
           h == HeadNumber(chain)
           t == IF to = None THEN h ELSE to
           e == ExportBoundsError(f, t, h)
       IN /\ from_' = f
          /\ to' = t
          /\ head_number' = h
          /\ IF e # "ok"
             THEN /\ Exit1(<<Rec("fatal", e, h)>>)
                  /\ UNCHANGED n
             ELSE /\ log' = Append(log, Rec("info", "Starting export", 0))
                  /\ n' = f
                  /\ pc' = "loop"
                  /\ UNCHANGED exit_status
    /\ UNCHANGED <<chain, data, i, first_block, pending, block_queue, added,
                   missing, sink, sink0, written, nwritten, unlockVars>>

(* variant: a number that does not resolve is skipped *)
ExportBlockSkip ==
    /\ pc = "loop"
    /\ n < ExportRangeEnd(to)
    /\ log' = log \o <<Rec("debug", "Exporting block", n)>>
                  \o (IF ProgressDue(n, from_)
                      THEN <<Rec("info", "Exporting block to", n)>> ELSE <<>>)
    /\ IF Resolves(n)
       THEN /\ sink' = sink \o StoredRlp(n)
            /\ written' = Append(written, n)
            /\ nwritten' = nwritten + 1
       ELSE UNCHANGED <<sink, written, nwritten>>
    /\ n' = n + 1
    /\ UNCHANGED <<pc, exit_status, chain, data, i, first_block, pending,
                   block_queue, added, from_, to, head_number, missing, sink0,
                   unlockVars>>

(* lines 281-288: one iteration *)
ExportBlock ==
    /\ pc = "loop"
    /\ n < ExportRangeEnd(to)
    /\ log' = log \o <<Rec("debug", "Exporting block", n)>>
                  \o (IF ProgressDue(n, from_)
                      THEN <<Rec("info", "Exporting block to", n)>> ELSE <<>>)
    /\ IF Resolves(n)
       THEN /\ sink' = sink \o StoredRlp(n)
            /\ written' = Append(written, n)
            /\ nwritten' = nwritten + 1
            /\ n' = n + 1
            /\ UNCHANGED <<pc, exit_status>>
       ELSE \* KeyError is raised and nothing catches it
            /\ pc' = "crashed"
            /\ exit_status' = 1
            /\ UNCHANGED <<sink, written, nwritten, n>>
    /\ UNCHANGED <<chain, data, i, first_block, pending, block_queue, added,
                   from_, to, head_number, missing, sink0, unlockVars>>

(* line 289 *)
ExportComplete ==
    /\ pc = "loop"
    /\ ~(n < ExportRangeEnd(to))
    /\ log' = Append(log, Rec("info", "Export complete", 0))
    /\ pc' = "done"
    /\ exit_status' = 0
    /\ UNCHANGED <<chain, importVars, exportVars, unlockVars>>

(***************************************************************************)
(* export_blocks over a long chain.  The chain holds every number up to    *)
(* head_number and the file is not kept: only the count of writes is.      *)
(* Debug records are not kept either.  An iteration is two steps, the      *)
(* progress report and the write.                                          *)
(***************************************************************************)
BigHead == 100000     \* head number of the long chain

(* lines 265-280 *)
ExportBigValidate ==
    /\ pc = "big_export"
    /\ LET f == IF from_ = None THEN 0 ELSE from_
           h == head_number
           t == IF to = None THEN h ELSE to
           e == ExportBoundsError(f, t, h)
       IN /\ from_' = f
          /\ to' = t
          /\ IF e # "ok"
             THEN /\ Exit1(<<Rec("fatal", e, h)>>)
                  /\ UNCHANGED n
             ELSE /\ log' = Append(log, Rec("info", "Starting export", 0))
                  /\ n' = f
                  /\ pc' = "big_report"
                  /\ UNCHANGED exit_status
    /\ UNCHANGED <<chain, data, i, first_block, pending, block_queue, added,
                   head_number, missing, sink, sink0, written, nwritten, unlockVars>>

(* lines 281-284 *)
ExportReportStep ==
    /\ pc = "big_report"
    /\ n < ExportRangeEnd(to)
    /\ log' = log \o (IF ProgressDue(n, from_)
                      THEN <<Rec("info", "Exporting block to", n)>> ELSE <<>>)
    /\ pc' = "big_write"
    /\ UNCHANGED <<exit_status, chain, importVars, exportVars, unlockVars>>

(* lines 285-288 *)
ExportWriteStep ==
    /\ pc = "big_write"
    /\ nwritten' = nwritten + 1
    /\ n' = n + 1
    /\ pc' = "big_report"
    /\ UNCHANGED <<exit_status, log, chain, data, i, first_block, pending,
                   block_queue, added, from_, to, head_number, missing, sink,
                   sink0, written, unlockVars>>

(* line 289 *)
ExportBigComplete ==
    /\ pc = "big_report"
    /\ ~(n < ExportRangeEnd(to))
    /\ log' = Append(log, Rec("info", "Export complete", 0))
    /\ pc' = "done"
    /\ exit_status' = 0
    /\ UNCHANGED <<chain, importVars, exportVars, unlockVars>>

(***************************************************************************)
(* unlock_accounts                                                         *)
(***************************************************************************)
MaxAccounts == 3       \* identifiers requested in one call
MaxAttemptsBound == 3  \* largest attempt budget tried
AttemptCap == 4        \* wrong passwords typed per account when the budget is None

Known == {"a", "b"}           \* accounts of the account service
Ids == Known \cup {"x"}       \* identifiers a caller may ask for
NoPassword == "<None>"
NoAccount == "<KeyError>"
CorrectPw(acc) == acc         \* the password that decrypts the account's key

(* AccountsService.find(identifier): the account, or KeyError *)
find(id) == IF id \in Known THEN id ELSE NoAccount

(* Account.unlock(password) succeeds, ValueError otherwise *)
UnlockOk(acc, p) == p = CorrectPw(acc)

(* what the user may type at a prompt for acc *)
Typed(acc, wrongAllowed) == {CorrectPw(acc)} \cup (IF wrongAllowed THEN {"bad"} ELSE {})

(* lines 492-498: one iteration of the resolution loop *)
(* variant: an unknown identifier is logged and skipped *)
ResolveStepMut ==
    /\ pc = "resolve"
    /\ k < Len(account_ids)
    /\ LET account == find(account_ids[k + 1]) IN
       IF account = NoAccount
       THEN /\ log' = Append(log, Rec("fatal", "could not find account", k))
            /\ k' = k + 1
            /\ UNCHANGED <<pc, exit_status, accounts>>
       ELSE /\ accounts' = Append(accounts, account)
            /\ k' = k + 1
            /\ UNCHANGED <<pc, exit_status, log>>
    /\ UNCHANGED <<chain, importVars, exportVars, account_ids, password,
                   max_attempts, locked, attempt, pw, prompts, unlock_calls>>

ResolveStep ==
    /\ pc = "resolve"
    /\ k < Len(account_ids)
    /\ LET account == find(account_ids[k + 1]) IN
       IF account = NoAccount
       THEN /\ Exit1(<<Rec("fatal", "could not find account", k)>>)
            /\ UNCHANGED <<accounts, k>>
       ELSE /\ accounts' = Append(accounts, account)
            /\ k' = k + 1
            /\ UNCHANGED <<pc, exit_status, log>>
    /\ UNCHANGED <<chain, importVars, exportVars, account_ids, password,
                   max_attempts, locked, attempt, pw, prompts, unlock_calls>>

(* line 500: password is not None *)
\* variant: the password given up front is ignored
PasswordGivenMut == FALSE
PasswordGiven == password # NoPassword

(* lines 500 and 509-514: resolution is over, choose the path *)
UnlockBranch ==
    /\ pc = "resolve"
    /\ k = Len(account_ids)
    /\ pc' = IF PasswordGiven THEN "shared" ELSE "prompt"
    /\ k' = 0
    /\ UNCHANGED <<exit_status, log, chain, importVars, exportVars, account_ids,
                   accounts, password, max_attempts, locked, attempt, pw, prompts,
                   unlock_calls>>

(* lines 501-506: one iteration with the password given up front *)
SharedUnlockStep ==
    /\ pc = "shared"
    /\ k < Len(accounts)
    /\ LET account == accounts[k + 1]
           ok == UnlockOk(account, password)
       IN /\ unlock_calls' = Append(unlock_calls, [pos |-> k, ok |-> ok])
          /\ IF ok
             THEN /\ locked' = [locked EXCEPT ![account] = FALSE]
                  /\ UNCHANGED log
             ELSE /\ log' = Append(log, Rec("fatal",
                              "Could not unlock account with password from file", k))
                  /\ UNCHANGED locked
    /\ k' = k + 1
    /\ UNCHANGED <<pc, exit_status, chain, importVars, exportVars, account_ids,
                   accounts, password, max_attempts, attempt, pw, prompts>>

(* line 507 *)
SharedReturn ==
    /\ pc = "shared"
    /\ k = Len(accounts)
    /\ pc' = "returned"
    /\ UNCHANGED <<exit_status, log, chain, importVars, exportVars, unlockVars>>

(* lines 514-517: next account, first prompt *)
PromptFirst ==
    /\ pc = "prompt"
    /\ k < Len(accounts)
    /\ attempt' = 1
    /\ pw' \in Typed(accounts[k + 1], TRUE)
    /\ prompts' = Append(prompts, [pos |-> k, attempt |-> 1])
    /\ pc' = "try"
    /\ UNCHANGED <<exit_status, log, chain, importVars, exportVars, account_ids,
                   accounts, password, max_attempts, locked, k, unlock_calls>>

(* line 523: max_attempts and attempt > max_attempts *)
\* variants: the budget is off by one, either way
TooManyAttemptsEarly(att, max) == max # None /\ att >= max
TooManyAttemptsLate(att, max) == max # None /\ att > max + 1
TooManyAttemptsUnguarded(att, max) == att > max
TooManyAttempts(att, max) == max # None /\ att > max

(* lines 518-531: one iteration of the retry loop *)
\* variant: an exhausted budget leaves the retry loop and goes on to the next account
TryUnlockGiveUp ==
    /\ pc = "try"
    /\ LET account == accounts[k + 1]
           ok == UnlockOk(account, pw)
           att == attempt + 1
       IN /\ attempt' = att
          /\ unlock_calls' = Append(unlock_calls, [pos |-> k, ok |-> ok])
          /\ IF ok
             THEN /\ locked' = [locked EXCEPT ![account] = FALSE]
                  /\ k' = k + 1
                  /\ pc' = "prompt"
                  /\ UNCHANGED <<exit_status, log, pw, prompts>>
             ELSE IF TooManyAttempts(att, max_attempts)
                  THEN /\ log' = Append(log, Rec("fatal", "Too many unlock attempts", att))
                       /\ k' = k + 1
                       /\ pc' = "prompt"
                       /\ UNCHANGED <<exit_status, locked, pw, prompts>>
                  ELSE /\ pw' \in Typed(account, att < AttemptCap)
                       /\ prompts' = Append(prompts, [pos |-> k, attempt |-> att])
                       /\ UNCHANGED <<pc, exit_status, log, locked, k>>
    /\ UNCHANGED <<chain, importVars, exportVars, account_ids, accounts, password,
                   max_attempts>>
TryUnlock ==
    /\ pc = "try"
    /\ LET account == accounts[k + 1]
           ok == UnlockOk(account, pw)
           att == attempt + 1
       IN /\ attempt' = att
          /\ unlock_calls' = Append(unlock_calls, [pos |-> k, ok |-> ok])
          /\ IF ok
             THEN /\ locked' = [locked EXCEPT ![account] = FALSE]
                  /\ k' = k + 1
                  /\ pc' = "prompt"
                  /\ UNCHANGED <<exit_status, log, pw, prompts>>
             ELSE IF TooManyAttempts(att, max_attempts)
                  THEN /\ Exit1(<<Rec("fatal", "Too many unlock attempts", att)>>)
                       /\ UNCHANGED <<locked, k, pw, prompts>>
                  ELSE /\ pw' \in Typed(account, att < AttemptCap)
                       /\ prompts' = Append(prompts, [pos |-> k, attempt |-> att])
                       /\ UNCHANGED <<pc, exit_status, log, locked, k>>
    /\ UNCHANGED <<chain, importVars, exportVars, account_ids, accounts, password,
                   max_attempts>>

(* the for loop of line 514 is exhausted *)
InteractiveReturn ==
    /\ pc = "prompt"
    /\ k = Len(accounts)
    /\ pc' = "returned"
    /\ UNCHANGED <<exit_status, log, chain, importVars, exportVars, unlockVars>>

(***************************************************************************)
(* Initial states and specifications                                       *)
(***************************************************************************)
IdleExport ==
    /\ from_ = None /\ to = None /\ head_number = None /\ missing = {}
    /\ sink = <<>> /\ sink0 = <<>> /\ written = <<>> /\ nwritten = 0
IdleUnlock ==
    /\ account_ids = <<>> /\ accounts = <<>> /\ password = NoPassword
    /\ max_attempts = None
    /\ locked = [a \in Known |-> TRUE] /\ k = 0 /\ attempt = 0 /\ pw = "" /\ prompts = <<>>
    /\ unlock_calls = <<>>
IdleImport ==
    /\ data = <<>> /\ i = 0 /\ n = 0 /\ first_block = NoBlock /\ pending = NoBlock
    /\ block_queue = <<>> /\ added = <<>>

ImportInit ==
    /\ pc = "import"
    /\ exit_status = Running
    /\ log = <<>>
    /\ chain \in Chains
    /\ data \in Buffers
    /\ i = 0 /\ n = 0
    /\ first_block = NoBlock /\ pending = NoBlock
    /\ block_queue = <<>> /\ added = <<>>
    /\ IdleExport /\ IdleUnlock

ImportNext ==
    \/ ImportStart
    \/ NextFirstBlock
    \/ CheckFirstBlock
    \/ ScanStep
    \/ PutResume
    \/ DrainCheck
    \/ DrainWake
    \/ ImportFinish
    \/ ConsumeBlock

SpecImport == ImportInit /\ [][ImportNext]_vars

(* The import under cooperative scheduling: the driver is resumed after    *)
(* every yield, and the consumer gets its turn at the yields of the drain  *)
(* wait (lines 356-357) until it has taken every block.                    *)
ImportFairness ==
    /\ WF_vars(DrainCheck)
    /\ WF_vars(DrainWake)
    /\ WF_vars(ImportFinish)
    /\ SF_vars(ConsumeBlock)

SpecImportFair == ImportInit /\ [][ImportNext]_vars /\ ImportFairness

ExportInit ==
    /\ pc = "export_open"
    /\ exit_status = Running
    /\ log = <<>>
    /\ chain \in Chains
    /\ from_ \in {None} \cup (-1 .. (MaxHead + 1))
    /\ to \in {None} \cup (-1 .. (MaxHead + 1))
    /\ head_number = None
    /\ missing \in {{}} \cup {{m} : m \in 0 .. MaxHead}
    /\ sink0 \in {<<>>, StoredRlp(0)}
    /\ sink = <<>>
    /\ written = <<>>
    /\ nwritten = 0
    /\ IdleImport /\ IdleUnlock

ExportNext ==
    \/ ExportOpen
    \/ ExportValidate
    \/ ExportBlock
    \/ ExportComplete

SpecExport == ExportInit /\ [][ExportNext]_vars

ExportBigInit ==
    /\ pc = "big_export"
    /\ exit_status = Running
    /\ log = <<>>
    /\ chain = {Genesis}
    /\ from_ \in {None, 0, 1}
    /\ to \in {None, BatchSize - 1, BatchSize, 2 * BatchSize, BigHead + 1}
    /\ head_number = BigHead
    /\ missing = {}
    /\ sink0 = <<>> /\ sink = <<>> /\ written = <<>>
    /\ nwritten = 0
    /\ IdleImport /\ IdleUnlock

ExportBigNext ==
    \/ ExportBigValidate
    \/ ExportReportStep
    \/ ExportWriteStep
    \/ ExportBigComplete

SpecExportProgress == ExportBigInit /\ [][ExportBigNext]_vars

(***************************************************************************)
(* Round trip: `export` into a new file, then `import` of that file by a   *)
(* client whose chain holds the genesis block only.                        *)
(***************************************************************************)
RoundTripInit ==
    /\ pc = "export_open"
    /\ exit_status = Running
    /\ log = <<>>
    /\ chain \in Chains
    /\ from_ \in {None} \cup (0 .. MaxHead)
    /\ to \in {None} \cup (0 .. MaxHead)
    /\ head_number = None
    /\ missing = {}
    /\ sink0 = <<>> /\ sink = <<>> /\ written = <<>>
    /\ nwritten = 0
    /\ IdleImport /\ IdleUnlock

(* lines 292-295 and 307-311: the import command is started on the file *)
StartImport ==
    /\ pc = "done"
    /\ Logged("Export complete")
    /\ pc' = "import"
    /\ exit_status' = Running
    /\ log' = <<>>
    /\ chain' = {Genesis}
    /\ data' = sink
    /\ n' = 0
    /\ UNCHANGED <<i, first_block, pending, block_queue, added, exportVars,
                   unlockVars>>

RoundTripNext ==
    \/ ExportNext
    \/ StartImport
    \/ ImportNext

SpecRoundTrip == RoundTripInit /\ [][RoundTripNext]_vars

RECURSIVE IdSeqs(_)
IdSeqs(m) ==
    IF m = 0 THEN {<<>>}
    ELSE LET S == IdSeqs(m - 1) IN S \cup {Append(s, id) : s \in S, id \in Ids}

UnlockInit ==
    /\ pc = "resolve"
    /\ exit_status = Running
    /\ log = <<>>
    /\ chain = {Genesis}
    /\ account_ids \in IdSeqs(MaxAccounts)
    /\ accounts = <<>>
    /\ password \in {NoPassword, "a", "bad"}
    /\ max_attempts \in {None} \cup (1 .. MaxAttemptsBound)
    /\ locked = [a \in Known |-> TRUE]
    /\ k = 0 /\ attempt = 0 /\ pw = ""
    /\ prompts = <<>> /\ unlock_calls = <<>>
    /\ IdleImport /\ IdleExport

UnlockNext ==
    \/ ResolveStep
    \/ UnlockBranch
    \/ SharedUnlockStep
    \/ SharedReturn
    \/ PromptFirst
    \/ TryUnlock
    \/ InteractiveReturn

SpecUnlock == UnlockInit /\ [][UnlockNext]_vars

(***************************************************************************)
(* Properties of import_blocks                                             *)
(***************************************************************************)
(* The records of a file: decoding from offset at until the end or the     *)
(* first undecodable record.                                               *)
RECURSIVE RecordsFrom(_, _)
RecordsFrom(buf, at) ==
    IF at >= Len(buf) THEN <<>>
    ELSE LET r == consume_item(buf, at) IN
         IF ~r.ok THEN <<[ok |-> FALSE, at |-> at, item |-> [t |-> "none", v |-> <<>>]]>>
         ELSE <<[ok |-> TRUE, at |-> at, item |-> r.item]>> \o RecordsFrom(buf, r.next)

ValidTriple(item) == item.t = "list" /\ Len(item.v) = 3
AllDecodable(recs) == \A j \in 1 .. Len(recs) : recs[j].ok

(* the add_block calls expected for records recs[from..], positions 0-based *)
RECURSIVE ExpectedCalls(_, _)
ExpectedCalls(recs, j) ==
    IF j > Len(recs) THEN <<>>
    ELSE IF recs[j].ok /\ ValidTriple(recs[j].item)
         THEN <<[pos |-> j - 1, at |-> recs[j].at, block |-> TransientBlock(recs[j].item)]>>
              \o ExpectedCalls(recs, j + 1)
         ELSE ExpectedCalls(recs, j + 1)

ScanOver == pc \in {"drain", "sleeping", "stopping", "done"}
BeforeScan == pc \in {"import", "peek", "check"}
Waiting == block_queue \o (IF pending = NoBlock THEN <<>> ELSE <<pending>>)

(* C1: add_block is called once for each record that is a 3-element list   *)
(* and for no other record, in file order: the calls made so far are a     *)
(* prefix of the valid records of the file, the blocks waiting in the      *)
(* queue are the latest calls in call order, and once the scan is over the *)
(* calls are exactly the valid records.                                    *)
C1_AddBlockPerValidRecord ==
    LET recs == RecordsFrom(data, 0)
        exp == ExpectedCalls(recs, 1)
        w == Waiting
    IN /\ Len(added) <= Len(exp)
       /\ added = SubSeq(exp, 1, Len(added))
       /\ Len(w) <= Len(added)
       /\ \A j \in 1 .. Len(w) : w[j] = added[Len(added) - Len(w) + j].block
       /\ ScanOver => (AllDecodable(recs) /\ added = exp /\ pending = NoBlock)

C1_Witness ==
    /\ pc = "done"
    /\ n = 3
    /\ Len(added) = 2
    /\ added[1].pos = 0 /\ added[2].pos = 2
    /\ added[1].block.number > added[2].block.number

(* C2: when the first record adapts to a block and the chain knows neither *)
(* its hash nor its parent hash, the import exits with status 1 on the     *)
(* unlinked chains condition with no add_block call; when the chain knows  *)
(* one of the two, that condition is never logged.                         *)
C2_UnlinkedAbortsBeforeAdd ==
    LET r == consume_item(data, 0) IN
    (Len(data) > 0 /\ r.ok /\ ValidTriple(r.item) /\ ~BeforeScan) =>
        LET b == TransientBlock(r.item) IN
        IF b.hash \notin chain /\ b.prevhash \notin chain
        THEN /\ pc = "exited"
             /\ exit_status = 1
             /\ added = <<>>
             /\ block_queue = <<>>
             /\ log = <<Rec("fatal", "unlinked chains", b.number)>>
        ELSE /\ ~Logged("unlinked chains")
             /\ pc = "exited" => Logged("invalid RLP encoding")

C2_Witness ==
    /\ pc = "exited"
    /\ Logged("unlinked chains")
    /\ Len(RecordsFrom(data, 0)) = 3
    /\ Len(ExpectedCalls(RecordsFrom(data, 0), 1)) = 3

C7_FinishOnlyWhenDrained ==
    (pc \in {"stopping", "done"} \/ Logged("import finished")) =>
        /\ ~(i < Len(data))
        /\ block_queue = <<>>
        /\ pending = NoBlock
        /\ pc = "done" =>
              /\ exit_status = 0
              /\ log[Len(log)] = Rec("info", "import finished", HeadNumber(chain))

C7_Witness ==
    /\ pc = "done"
    /\ Len(added) = 3
    /\ HeadNumber(chain) = 2

(* C8: an import ends either with exit status 1 after one of the fatal     *)
(* conditions was logged, or with exit status 0 after the head number was  *)
(* reported.                                                               *)
ImportFatals == {"invalid RLP encoding", "first block invalid", "unlinked chains"}
C8_TwoOutcomesOnly ==
    pc \in {"exited", "done", "crashed"} =>
        /\ log # <<>>
        /\ LET last == log[Len(log)] IN
           \/ exit_status = 1 /\ last.level = "fatal" /\ last.msg \in ImportFatals
           \/ exit_status = 0 /\ last.level = "info" /\ last.msg = "import finished"

(***************************************************************************)
(* Properties of export_blocks                                             *)
(***************************************************************************)
GivenFrom == IF from_ = None THEN 0 ELSE from_
GivenTo == IF to = None THEN HeadNumber(chain) ELSE to
ValidBounds == 0 <= GivenFrom /\ GivenFrom <= GivenTo /\ GivenTo <= HeadNumber(chain)

(* C5: with from < 0, or to < from, or to > head, export exits with status *)
(* 1, writes nothing, and logs exactly one fatal record, that of the first *)
(* bound violated in this order.                                           *)
C5_InvalidBoundsWriteNothing ==
    ~ValidBounds =>
        /\ written = <<>>
        /\ pc # "export_open" => sink = sink0
        /\ pc \notin {"export_open", "export"} =>
              /\ pc = "exited"
              /\ exit_status = 1
              /\ Len(log) = 1
              /\ log[1].level = "fatal"
              /\ log[1].msg =
                    IF GivenFrom < 0 THEN "block numbers must not be negative"
                    ELSE IF GivenTo < GivenFrom
                         THEN "to block must be newer than from block"
                         ELSE "to block not known"

C5_Witness ==
    /\ pc = "exited"
    /\ from_ = 0
    /\ to = HeadNumber(chain) + 1
    /\ sink0 # <<>>
    /\ missing = {}

NumbersTo(a, b) == [j \in 1 .. (b - a + 1) |-> a + j - 1]
RECURSIVE StoredBytes(_, _)
StoredBytes(a, b) == IF b < a THEN <<>> ELSE StoredRlp(a) \o StoredBytes(a + 1, b)

(* C6: with valid bounds and every number of the range resolving, export   *)
(* never fails, writes the blocks from, from+1, ... one write each in      *)
(* increasing order after the content the file already had, and ends with  *)
(* exactly to - from + 1 records written.                                  *)
C6_ExportAppendsRange ==
    (ValidBounds /\ \A m \in GivenFrom .. GivenTo : Resolves(m)) =>
        /\ pc \notin {"exited", "crashed"}
        /\ pc \in {"loop", "done"} =>
              /\ written = NumbersTo(from_, n - 1)
              /\ sink = sink0 \o StoredBytes(from_, n - 1)
        /\ pc = "done" =>
              /\ n = to + 1
              /\ Len(written) = to - from_ + 1
              /\ exit_status = 0

C6_Witness ==
    /\ pc = "done"
    /\ from_ = 1
    /\ to = 3
    /\ written = <<1, 2, 3>>
    /\ sink0 # <<>>

(***************************************************************************)
(* Properties of unlock_accounts                                           *)
(***************************************************************************)
CallsAt(p) == {j \in 1 .. Len(unlock_calls) : unlock_calls[j].pos = p}
FailsAt(p) == Cardinality({j \in CallsAt(p) : ~unlock_calls[j].ok})
PromptsAt(p) == Cardinality({j \in 1 .. Len(prompts) : prompts[j].pos = p})
Positions == 0 .. (Len(account_ids) - 1)

(* C4: without a password and with max_attempts = m, as soon as unlock has *)
(* failed m times on the account at some position the process has exited   *)
(* with status 1: the accounts before that position are unlocked, and no   *)
(* prompt or unlock call was made for a later position or after that       *)
(* failure.                                                                *)
C4_ExhaustedBudgetHalts ==
    (password = NoPassword /\ max_attempts # None) =>
        \A p \in Positions :
            FailsAt(p) >= max_attempts =>
                /\ pc = "exited"
                /\ exit_status = 1
                /\ FailsAt(p) = max_attempts
                /\ PromptsAt(p) = max_attempts
                /\ unlock_calls[Len(unlock_calls)] = [pos |-> p, ok |-> FALSE]
                /\ \A q \in 0 .. (p - 1) : ~locked[accounts[q + 1]]
                /\ \A j \in 1 .. Len(unlock_calls) : unlock_calls[j].pos <= p
                /\ \A j \in 1 .. Len(prompts) : prompts[j].pos <= p

C4_Witness ==
    /\ pc = "exited"
    /\ max_attempts = 3
    /\ account_ids = <<"a", "b", "a">>
    /\ unlock_calls = <<[pos |-> 0, ok |-> FALSE], [pos |-> 0, ok |-> TRUE],
                        [pos |-> 1, ok |-> FALSE], [pos |-> 1, ok |-> FALSE],
                        [pos |-> 1, ok |-> FALSE]>>
    /\ ~locked["a"] /\ locked["b"]

C10_UnknownIdentifierFatal ==
    (\E j \in 1 .. Len(account_ids) : account_ids[j] \notin Known) =>
        /\ unlock_calls = <<>>
        /\ prompts = <<>>
        /\ \A a \in Known : locked[a]
        /\ pc \in {"resolve", "exited"}
        /\ pc = "exited" =>
              /\ exit_status = 1
              /\ Len(log) = 1
              /\ log[1].level = "fatal"
              /\ log[1].msg = "could not find account"
              /\ account_ids[log[1].arg + 1] \notin Known
              /\ \A j \in 1 .. log[1].arg : account_ids[j] \in Known

C10_Witness ==
    /\ pc = "exited"
    /\ account_ids = <<"a", "b", "x">>
    /\ password = NoPassword

(***************************************************************************)
(* Warnings of import_blocks                                               *)
(***************************************************************************)
Malformed(recs) == {j \in 1 .. Len(recs) : recs[j].ok /\ ~ValidTriple(recs[j].item)}
MsgCount(msg) == Cardinality({j \in 1 .. Len(log) : log[j].msg = msg})

(* C11 as stated: after an import that ran to completion the number of     *)
(* warning records equals the number of malformed records of the file.     *)
C11_OneWarningPerMalformed ==
    pc = "done" => LogCount("warning") = Cardinality(Malformed(RecordsFrom(data, 0)))

(* C11 amended: after the scan every malformed record has produced two     *)
(* warning records, one after the other: "not a valid block" with its byte *)
(* offset from the generator and "skipping block" with its position from   *)
(* the driver; there is no other warning record.                           *)
C11_TwoWarningsPerMalformed ==
    ScanOver =>
        LET recs == RecordsFrom(data, 0)
            bad == Malformed(recs)
        IN /\ LogCount("warning") = 2 * Cardinality(bad)
           /\ MsgCount("not a valid block") = Cardinality(bad)
           /\ MsgCount("skipping block") = Cardinality(bad)
           /\ \A j \in bad :
                 \E l \in 1 .. (Len(log) - 1) :
                    /\ log[l] = Rec("warning", "not a valid block", recs[j].at)
                    /\ log[l + 1] = Rec("warning", "skipping block", j - 1)

C11_Witness ==
    /\ pc = "done"
    /\ Cardinality(Malformed(RecordsFrom(data, 0))) = 2
    /\ LogCount("warning") = 4
    /\ Len(added) = 1

(***************************************************************************)
(* Progress reports of export_blocks                                       *)
(***************************************************************************)
IsProgress(r) == r.msg = "Exporting block to"
Reports == SelectSeq(log, IsProgress)

(* C12: the progress reports are those of the numbers from, from + 50000,  *)
(* from + 100000, ... up to the number being exported, in this order; the  *)
(* report of a number is logged while only the numbers below it have been  *)
(* written; a finished export has logged (to - from) \div 50000 + 1 reports *)
(* and made to - from + 1 writes.                                          *)
C12_ProgressEveryBatch ==
    pc \in {"big_report", "big_write", "done"} =>
        LET cur == IF pc = "big_write" THEN n ELSE n - 1
            cnt == IF cur < from_ THEN 0 ELSE ((cur - from_) \div BatchSize) + 1
        IN /\ Len(Reports) = cnt
           /\ \A c \in 1 .. cnt : Reports[c].arg = from_ + (c - 1) * BatchSize
           /\ nwritten = n - from_
           /\ pc = "done" =>
                 /\ n = to + 1
                 /\ Len(Reports) = ((to - from_) \div BatchSize) + 1

C12_Witness ==
    /\ pc = "done"
    /\ head_number = 100000
    /\ from_ = 0
    /\ to = 100000
    /\ Len(Reports) = 3
    /\ <<Reports[1].arg, Reports[2].arg, Reports[3].arg>> = <<0, 50000, 100000>>
    /\ nwritten = 100001

(***************************************************************************)
(* Round trip of one block                                                 *)
(***************************************************************************)
(* the import of a file holding the one block from_ = to has ended *)
OneBlockImportEnded ==
    /\ head_number # None
    /\ from_ = to /\ 0 <= from_ /\ to <= head_number
    /\ pc \in {"done", "exited", "crashed"}
    /\ ~Logged("Starting export")

(* C13 as stated: a block exported and then imported into a chain holding  *)
(* the genesis block only leaves the chain head at the number of the       *)
(* exported block.                                                         *)
C13_RoundTripHead ==
    OneBlockImportEnded => (pc = "done" /\ HeadNumber(chain) = to)

(* C13 amended: the round trip of one block leaves the head at the block's *)
(* number when the block is the genesis block or a child of it (number at  *)
(* most 1); the import of any other single block exits with status 1 on    *)
(* the unlinked chains condition and the head stays at 0.                  *)
C13_RoundTripLinkedBlock ==
    OneBlockImportEnded =>
        IF to <= 1
        THEN /\ pc = "done"
             /\ exit_status = 0
             /\ HeadNumber(chain) = to
             /\ log[Len(log)] = Rec("info", "import finished", to)
        ELSE /\ pc = "exited"
             /\ exit_status = 1
             /\ Logged("unlinked chains")
             /\ added = <<>>
             /\ HeadNumber(chain) = 0

C13_Witness ==
    /\ OneBlockImportEnded
    /\ pc = "done"
    /\ head_number = 3
    /\ to = 1
    /\ HeadNumber(chain) = 1
    /\ Len(added) = 1

(***************************************************************************)
(* Resolution failures of export_blocks                                    *)
(***************************************************************************)
(* C14: with validated bounds the numbers written are from, from + 1, ...  *)
(* without a gap; at a number of the range that does not resolve the       *)
(* export ends with a non-zero exit status and nothing is written after    *)
(* it, so an export that completes has resolved every number of the range. *)
C14_NoBlockSkipped ==
    pc \in {"loop", "done", "crashed"} =>
        /\ Len(written) = n - from_
        /\ \A j \in 1 .. Len(written) : written[j] = from_ + j - 1
        /\ \A m \in from_ .. (n - 1) : Resolves(m)
        /\ pc = "crashed" =>
              /\ exit_status = 1
              /\ n \in from_ .. to
              /\ ~Resolves(n)
              /\ ~Logged("Export complete")
        /\ pc = "done" => \A m \in from_ .. to : Resolves(m)

C14_Witness ==
    /\ pc = "crashed"
    /\ missing = {2}
    /\ from_ = 1
    /\ to = 3
    /\ written = <<1>>
    /\ sink = sink0 \o StoredRlp(1)

(***************************************************************************)
(* The documented contracts                                                *)
(***************************************************************************)
(* C15: as the docstring of import_blocks states it, a block that cannot   *)
(* be imported is ignored and the import goes on; an import ends before    *)
(* the scan is over only when neither the first block nor its parent is    *)
(* known to the chain.                                                     *)
C15_SoleEarlyEndIsUnlinked ==
    pc = "exited" =>
        /\ Logged("unlinked chains")
        /\ ~Logged("invalid RLP encoding")
        /\ ~Logged("first block invalid")

(* C16: as the docstring of unlock_accounts states it, the procedure       *)
(* returns only when every requested account is unlocked, with a password  *)
(* given up front as well as with prompts.                                 *)
C16_ReturnsOnlyAllUnlocked ==
    pc = "returned" =>
        \A j \in 1 .. Len(account_ids) :
            /\ account_ids[j] \in Known
            /\ ~locked[account_ids[j]]

(***************************************************************************)
(* The attempt budget of the interactive path                              *)
(***************************************************************************)
Interactive == password = NoPassword /\ pc \in {"prompt", "try", "returned", "exited"}
NCallsAt(p) == Cardinality(CallsAt(p))

C20_UnboundedRetries ==
    (Interactive /\ max_attempts = None) =>
        /\ ~Logged("Too many unlock attempts")
        /\ pc = "exited" => (unlock_calls = <<>> /\ Logged("could not find account"))
        /\ pc \in {"prompt", "try", "returned"} =>
              /\ exit_status = Running
              /\ \A p \in 0 .. (k - 1) :
                    /\ NCallsAt(p) = FailsAt(p) + 1
                    /\ PromptsAt(p) = NCallsAt(p)
                    /\ \A j \in CallsAt(p) : unlock_calls[j].ok => \A j2 \in CallsAt(p) : j2 <= j
                    /\ ~locked[accounts[p + 1]]
        /\ pc = "try" =>
              /\ NCallsAt(k) = FailsAt(k)
              /\ PromptsAt(k) = FailsAt(k) + 1
              /\ prompts[Len(prompts)].pos = k

C20_Witness ==
    /\ pc = "returned"
    /\ password = NoPassword
    /\ max_attempts = None
    /\ account_ids = <<"a", "b">>
    /\ FailsAt(0) = 3
    /\ FailsAt(1) = 1
    /\ ~locked["a"] /\ ~locked["b"]

(***************************************************************************)
(* A decoding failure in the middle of the scan                            *)
(***************************************************************************)
(* the file has an undecodable record at position k >= 1 (0-based count of *)
(* records), and the scan has reached it                                   *)
BadRecordAt == Len(RecordsFrom(data, 0)) - 1
DecodeFailsLater ==
    LET recs == RecordsFrom(data, 0) IN
    /\ ~AllDecodable(recs)
    /\ BadRecordAt >= 1
AddedBlocks == [j \in 1 .. Len(added) |-> added[j].block]
IsSuffix(s, t) ==
    /\ Len(s) <= Len(t)
    /\ \A j \in 1 .. Len(s) : s[j] = t[Len(t) - Len(s) + j]
AbortedInScan == DecodeFailsLater /\ pc = "exited" /\ n >= 1

ImportReported ==
    /\ pc = "done"
    /\ exit_status = 0
    /\ block_queue = <<>>
    /\ log # <<>>
    /\ log[Len(log)] = Rec("info", "import finished", HeadNumber(chain))

(* C18: once the scan is over, with the consumer scheduled fairly at the   *)
(* yields, the import eventually sees block_queue empty, stops and reports *)
(* the head number; every iteration of the wait that finds a block waiting *)
(* yields, and the driver comes back from a yield to the test of the loop. *)
C18_DrainWaitEnds ==
    /\ ScanOver ~> ImportReported
    /\ [][(pc = "drain" /\ block_queue # <<>>) => pc' = "sleeping"]_vars
    /\ [][(pc = "sleeping" /\ pc' # "sleeping") => pc' = "drain"]_vars
    /\ [][(pc = "drain" /\ block_queue = <<>>) => pc' = "stopping"]_vars

C18_Witness ==
    /\ ImportReported
    /\ data = BlockRlp(2) \o NestedBlockRlp(3) \o BlockRlp(OrphanId)
    /\ chain = {1, 2, 3}
    /\ Len(added) = 3

(***************************************************************************)
(* The locked flags on the interactive path                                *)
(***************************************************************************)
PromptingPath == password = NoPassword /\ pc \in {"prompt", "try", "returned"}

(* C21: on the interactive path, every account before the one being        *)
(* prompted for is unlocked, an unlocked account is never locked again,     *)
(* the step that moves on from an account leaves that account unlocked,     *)
(* and when unlock_accounts returns every requested account is unlocked.    *)
C21_PassedAccountsUnlocked ==
    /\ [](PromptingPath =>
            /\ k <= Len(accounts)
            /\ \A p \in 0 .. (k - 1) : ~locked[accounts[p + 1]]
            /\ pc = "returned" =>
                  /\ k = Len(account_ids)
                  /\ exit_status = Running
                  /\ \A j \in 1 .. Len(account_ids) :
                        account_ids[j] \in Known /\ ~locked[account_ids[j]])
    /\ [][\A a \in Known : ~locked[a] => ~locked'[a]]_vars
    /\ [][(password = NoPassword /\ pc = "try" /\ k' = k + 1)
              => ~locked'[accounts[k + 1]]]_vars

C21_Witness ==
    /\ PromptingPath
    /\ pc = "try"
    /\ k = 2
    /\ account_ids = <<"a", "b", "a">>
    /\ max_attempts = 2
    /\ FailsAt(0) = 1 /\ FailsAt(1) = 1 /\ FailsAt(2) = 1
    /\ ~locked["a"] /\ ~locked["b"]

(***************************************************************************)
(* The two generators of import_blocks                                     *)
(***************************************************************************)
AddsAtOffset(at) == Cardinality({j \in 1 .. Len(added) : added[j].at = at})

(* C22: the generator made for the peek enqueues nothing; the scan starts  *)
(* again at offset 0, decodes the first record to the block the peek saw   *)
(* and passes it to add_block once; add_block is called at most once for   *)
(* each record, in file order, and each call puts its block in the queue   *)
(* once.                                                                   *)
C22_EachRecordEnqueuedOnce ==
    /\ BeforeScan => (added = <<>> /\ block_queue = <<>> /\ pending = NoBlock /\ n = 0)
    /\ Len(added) <= n
    /\ \A at \in 0 .. Len(data) : AddsAtOffset(at) <= 1
    /\ \A j1, j2 \in 1 .. Len(added) :
          j1 < j2 => (added[j1].at < added[j2].at /\ added[j1].pos < added[j2].pos)
    /\ IsSuffix(Waiting, AddedBlocks)
    /\ n >= 1 =>
          /\ first_block # NoBlock
          /\ added # <<>>
          /\ added[1] = [pos |-> 0, at |-> 0, block |-> first_block]
          /\ AddsAtOffset(0) = 1

C22_Witness ==
    /\ pc = "done"
    /\ data = BlockRlp(2) \o BlockRlp(2)
    /\ n = 2
    /\ Len(added) = 2
    /\ added[1].block = first_block
    /\ added[2].block = first_block
    /\ added[2].at = 4
====
